---- MODULE Spec2Model ----
(***************************************************************************)
(* Model of the open3d_gui demo: helper.py (pix2point, get_food_mask,      *)
(* poly2mask, json2results) and AppWindow._on_click_load_pcd /_on_clear of *)
(* tech_blog_demo.py.                                                      *)
(*                                                                         *)
(* Conventions                                                             *)
(*   - a grid shape is <<height, width>>; a pixel is <<row, col>>, both    *)
(*     0-based as in numpy; an image is a function over Pixels(shape);     *)
(*   - an annotation point is <<x, y>> = <<col, row>> as in the JSON, its  *)
(*     coordinates given in HALF pixels (3 stands for 1.5) so that the     *)
(*     astype(np.int64) truncation is a real conversion;                   *)
(*   - a call returns [err |-> "none" | <exception name>, val |-> result]; *)
(*   - a float is an extended rational: [k |-> "fin", n, d] with d > 0 in  *)
(*     lowest terms, or k = "inf" (n = 1 or -1) or k = "nan".  Rounding of *)
(*     float64 is not modelled.                                            *)
(***************************************************************************)
EXTENDS Integers, Sequences, FiniteSets, TLC

VARIABLES
    pc,               \* "start" before a call and "done" after it; in the
                      \* application "loaded" after RUN, "cleared" after CLEAR
    data,             \* the annotation document's shapes (json_file["shapes"])
    shape_,           \* target grid shape <<height, width>> (npy.shape)
    results,          \* json2results' return value
    err,              \* exception that left the call ("none" when it returned)
    ranked_food_mask, \* get_food_mask's label image
    food_indices,     \* get_food_mask's present indices
    depth,            \* depth image (npy)
    intrinsics,       \* depth_intrinsics_dict
    real_coords,      \* pix2point's coordinate field
    mesh_list,        \* _on_click_load_pcd's list of point clouds
    geometry,         \* the scene: sequence of <<name, point cloud>> added
    all_geo_names     \* AppWindow.all_geo_names

vars == <<pc, data, shape_, results, err, ranked_food_mask, food_indices,
          depth, intrinsics, real_coords, mesh_list, geometry, all_geo_names>>

----------------------------------------------------------------------------
(* Bounds of the model *)

\* largest number of pixels of a grid (height * width <= MaxPix)
MaxPix == 4
\* largest number of annotations of a document / instance masks of a set
MaxShapes == 2
\* how far (in pixels) an annotation vertex may lie outside the grid
Margin == 1
\* largest depth reading
MaxDepth == 2
\* largest focal length
MaxFocal == 2
\* largest number of pixels of a depth image given to pix2point alone
MaxDepthPix == 2

GridShapes == {s \in (1..MaxPix) \X (1..MaxPix) : s[1] * s[2] <= MaxPix}

Pixels(shape) == (0..(shape[1] - 1)) \X (0..(shape[2] - 1))

Min2(a, b) == IF a < b THEN a ELSE b
Max2(a, b) == IF a > b THEN a ELSE b

----------------------------------------------------------------------------
(* Python values *)

\* Python's None, and a number, as entries of one list
None == [tag |-> "None", val |-> 0]
Num(v) == [tag |-> "num", val |-> v]

OK(v) == [err |-> "none", val |-> v]
Raise(e) == [err |-> e, val |-> <<>>]

----------------------------------------------------------------------------
(* helper.py: json2results and poly2mask *)

\* np.array(shape['points']).astype(np.int64): truncation toward zero of a
\* coordinate given in half pixels
AsInt64(h) == IF h >= 0 THEN h \div 2 ELSE -((-h) \div 2)

\* mask_points: the points array after astype
MaskPoints(points) == [i \in 1..Len(points) |->
                          <<AsInt64(points[i][1]), AsInt64(points[i][2])>>]

\* Python's slice index normalisation (slice.indices) for a:b on an axis of
\* length n: negative indices count from the end, then clip to 0..n
SliceIdx(i, n) ==
    IF i < 0 THEN (IF i + n < 0 THEN 0 ELSE i + n)
    ELSE IF i > n THEN n ELSE i

\* RectangleMask with the x and y columns of mask_points exchanged
RectangleMaskTransposed(mp, shape) ==
    LET r0 == SliceIdx(mp[1][1], shape[1])
        r1 == SliceIdx(mp[2][1], shape[1])
        c0 == SliceIdx(mp[1][2], shape[2])
        c1 == SliceIdx(mp[2][2], shape[2])
    IN  [p \in Pixels(shape) |->
            IF r0 <= p[1] /\ p[1] < r1 /\ c0 <= p[2] /\ p[2] < c1
            THEN 1 ELSE 0]

\* mask = np.zeros(shape_).astype('uint8');
\* mask[mp[0,1]:mp[1,1], mp[0,0]:mp[1,0]] = 1
RectangleMask(mp, shape) ==
    LET r0 == SliceIdx(mp[1][2], shape[1])
        r1 == SliceIdx(mp[2][2], shape[1])
        c0 == SliceIdx(mp[1][1], shape[2])
        c1 == SliceIdx(mp[2][1], shape[2])
    IN  [p \in Pixels(shape) |->
            IF r0 <= p[1] /\ p[1] < r1 /\ c0 <= p[2] /\ p[2] < c1
            THEN 1 ELSE 0]

\* skimage's point_in_polygon (crossing test of O'Rourke, vertices and edges
\* included): 0 outside, nonzero inside / on a vertex / on an edge.
\* xs, ys: the vertices' coordinates; (x, y) the tested point.
RECURSIVE Crossings(_, _, _, _, _, _)
Crossings(xs, ys, x, y, i, right) ==
    IF i > Len(xs) THEN 0
    ELSE LET j  == IF i = 1 THEN Len(xs) ELSE i - 1
             x0 == xs[i] - x
             y0 == ys[i] - y
             x1 == xs[j] - x
             y1 == ys[j] - y
             num == x0 * y1 - x1 * y0
             den == y1 - y0
             straddle == IF right THEN (y0 > 0) # (y1 > 0)
                                  ELSE (y0 < 0) # (y1 < 0)
             \* num / den > 0 (right) or < 0 (left), den # 0 when straddling
             hit == IF right THEN num * den > 0 ELSE num * den < 0
         IN  (IF straddle /\ hit THEN 1 ELSE 0)
             + Crossings(xs, ys, x, y, i + 1, right)

PointInPolygon(xs, ys, x, y) ==
    IF \E i \in 1..Len(xs) : xs[i] = x /\ ys[i] = y THEN 2
    ELSE LET r_cross == Crossings(xs, ys, x, y, 1, TRUE)
             l_cross == Crossings(xs, ys, x, y, 1, FALSE)
         IN  IF (r_cross % 2) # (l_cross % 2) THEN 3
             ELSE IF r_cross % 2 = 1 THEN 1 ELSE 0

SeqMin(s) == CHOOSE v \in {s[i] : i \in 1..Len(s)} :
                 \A i \in 1..Len(s) : v <= s[i]
SeqMax(s) == CHOOSE v \in {s[i] : i \in 1..Len(s)} :
                 \A i \in 1..Len(s) : v >= s[i]

\* poly2mask: draw.polygon(rows, cols, shape) fills the pixels of the
\* vertices' bounding box, clipped to the grid, that the polygon holds
poly2mask(vertex_row_coords, vertex_col_coords, shape) ==
    LET minr == Max2(0, SeqMin(vertex_row_coords))
        maxr == Min2(shape[1] - 1, SeqMax(vertex_row_coords))
        minc == Max2(0, SeqMin(vertex_col_coords))
        maxc == Min2(shape[2] - 1, SeqMax(vertex_col_coords))
    IN  [p \in Pixels(shape) |->
            IF /\ minr <= p[1] /\ p[1] <= maxr
               /\ minc <= p[2] /\ p[2] <= maxc
               /\ PointInPolygon(vertex_col_coords, vertex_row_coords,
                                 p[2], p[1]) # 0
            THEN 1 ELSE 0]

\* ShapeScore with a missing score defaulted to zero
ShapeScoreZero(shape) ==
    IF Len(shape.scores) > 0 THEN Num(shape.scores[1]) ELSE Num(0)

\* the score appended for one annotation: shape['scores']['cls'] or None
ShapeScore(shape) ==
    IF Len(shape.scores) > 0 THEN Num(shape.scores[1]) ELSE None

\* the mask of one annotation (the if / else on shape_type); indexing a
\* points array without the rows it reads raises IndexError
ShapeMask(shape, shape2d) ==
    LET mp == MaskPoints(shape.points) IN
    IF shape.shape_type = "rectangle"
    THEN IF Len(mp) < 2 THEN Raise("IndexError")
         ELSE OK(RectangleMask(mp, shape2d))
    ELSE IF Len(mp) < 1 THEN Raise("IndexError")
         ELSE OK(poly2mask([i \in 1..Len(mp) |-> mp[i][2]],
                           [i \in 1..Len(mp) |-> mp[i][1]], shape2d))

EmptyResults == [class_names |-> <<>>, scores |-> <<>>, masks |-> <<>>]

\* the loop over data['shapes'], from annotation i on, acc the results so far
RECURSIVE Json2ResultsFrom(_, _, _, _)
Json2ResultsFrom(shapes, shape2d, i, acc) ==
    IF i > Len(shapes) THEN OK(acc)
    ELSE LET shape == shapes[i]
             m == ShapeMask(shape, shape2d)
         IN  IF m.err # "none" THEN Raise(m.err)
             ELSE Json2ResultsFrom(shapes, shape2d, i + 1,
                     [class_names |-> Append(acc.class_names, shape.label),
                      scores      |-> Append(acc.scores, ShapeScore(shape)),
                      masks       |-> Append(acc.masks, m.val)])

json2results(shapes, shape2d) ==
    Json2ResultsFrom(shapes, shape2d, 1, EmptyResults)

----------------------------------------------------------------------------
(* helper.py: get_food_mask *)

non_food_value == -1

\* .astype("int16"): two's complement wrap to 16 bits
Int16(v) == ((v + 32768) % 65536) - 32768

\* the ascending sequence of the elements of a finite set of integers
RECURSIVE SortedSeq(_)
SortedSeq(S) ==
    IF S = {} THEN <<>>
    ELSE LET m == CHOOSE v \in S : \A w \in S : v <= w
         IN  <<m>> \o SortedSeq(S \ {m})

\* np.unique: the sorted distinct values of an image
Unique(img) == SortedSeq({img[p] : p \in DOMAIN img})

\* Overwrite that keeps a pixel's first writer
OverwriteFirst(ranked, mask, idx) ==
    [p \in DOMAIN ranked |->
        IF mask[p] = 1 /\ ranked[p] = non_food_value THEN idx ELSE ranked[p]]

\* ranked_food_mask[results["masks"][idx] == 1] = idx, for one idx
Overwrite(ranked, mask, idx) ==
    [p \in DOMAIN ranked |-> IF mask[p] = 1 THEN idx ELSE ranked[p]]

\* the loop "for idx in sorted_idx" from idx on (idx is 0-based)
RECURSIVE RankFrom(_, _, _, _)
RankFrom(masks, n, idx, ranked) ==
    IF idx >= n THEN ranked
    ELSE RankFrom(masks, n, idx + 1, Overwrite(ranked, masks[idx + 1], idx))

\* get_food_mask reporting every instance whose own mask holds a pixel
get_food_mask_of_masks(res) ==
    IF Len(res.masks) = 0
    THEN Raise("IndexError")
    ELSE LET ranked0 == [p \in DOMAIN res.masks[1] |-> non_food_value]
             ranked  == RankFrom(res.masks, Len(res.class_names), 0, ranked0)
         IN  OK([ranked_food_mask |-> ranked,
                 food_indices     |->
                     SortedSeq({i \in 0..(Len(res.masks) - 1) :
                         \E p \in DOMAIN ranked : res.masks[i + 1][p] = 1})])

\* the label image and the present indices; the grid shape is read from the
\* first mask
get_food_mask(res) ==
    IF Len(res.masks) = 0
    THEN Raise("IndexError")      \* results["masks"][0] of an empty array
    ELSE LET ranked0 == [p \in DOMAIN res.masks[1] |-> non_food_value]
             ranked  == RankFrom(res.masks, Len(res.class_names), 0, ranked0)
             u       == Unique(ranked)
             unique_indices == [i \in 1..Len(u) |-> Int16(u[i])]
             NotBackground(v) == v # non_food_value
         IN  OK([ranked_food_mask |-> ranked,
                 food_indices     |-> SelectSeq(unique_indices, NotBackground)])

----------------------------------------------------------------------------
(* numpy float arithmetic on extended rationals *)

Abs(a) == IF a < 0 THEN -a ELSE a
Sgn(a) == IF a < 0 THEN -1 ELSE IF a > 0 THEN 1 ELSE 0

RECURSIVE GCD(_, _)
GCD(a, b) == IF b = 0 THEN a ELSE GCD(b, a % b)

NaN == [k |-> "nan", n |-> 0, d |-> 0]
Inf(s) == [k |-> "inf", n |-> s, d |-> 0]

\* the rational n / d (d # 0) in lowest terms with a positive denominator
Frac(n, d) ==
    LET g == GCD(Abs(n), Abs(d))
        s == IF d < 0 THEN -1 ELSE 1
    IN  [k |-> "fin", n |-> s * (n \div g), d |-> s * (d \div g)]

R(i) == [k |-> "fin", n |-> i, d |-> 1]

FAdd(a, b) ==
    IF a.k = "nan" \/ b.k = "nan" THEN NaN
    ELSE IF a.k = "inf" /\ b.k = "inf"
         THEN (IF a.n = b.n THEN a ELSE NaN)
    ELSE IF a.k = "inf" THEN a
    ELSE IF b.k = "inf" THEN b
    ELSE LET g == GCD(a.d, b.d)
         IN  Frac(a.n * (b.d \div g) + b.n * (a.d \div g), (a.d \div g) * b.d)

FNeg(a) == IF a.k = "nan" THEN NaN ELSE [a EXCEPT !.n = -a.n]

FSub(a, b) == FAdd(a, FNeg(b))

FMul(a, b) ==
    IF a.k = "nan" \/ b.k = "nan" THEN NaN
    ELSE IF a.k = "inf" \/ b.k = "inf"
         THEN (IF a.n = 0 \/ b.n = 0 THEN NaN ELSE Inf(Sgn(a.n) * Sgn(b.n)))
    ELSE LET g1 == GCD(Abs(a.n), b.d)
             g2 == GCD(Abs(b.n), a.d)
         IN  Frac((a.n \div g1) * (b.n \div g2), (a.d \div g2) * (b.d \div g1))

\* numpy true division: x / 0 is inf with x's sign and 0 / 0 is nan (a
\* RuntimeWarning, no exception)
FDiv(a, b) ==
    IF a.k = "nan" \/ b.k = "nan" THEN NaN
    ELSE IF b.k = "inf"
         THEN (IF a.k = "inf" THEN NaN ELSE R(0))
    ELSE IF b.n = 0
         THEN (IF a.n = 0 THEN NaN ELSE Inf(Sgn(a.n)))
    ELSE IF a.k = "inf" THEN Inf(a.n * Sgn(b.n))
    ELSE FMul(a, Frac(b.d, b.n))

----------------------------------------------------------------------------
(* helper.py: pix2point *)

\* NormX dividing by the other focal length
NormXOtherFocal(col, intr) == FDiv(FSub(R(col), R(intr.ppx)), R(intr.fy))

\* x = (x_s_idx - ppx) / fx at column col
NormX(col, intr) == FDiv(FSub(R(col), R(intr.ppx)), R(intr.fx))

\* y = (y_s_idx - ppy) / fy at row row
NormY(row, intr) == FDiv(FSub(R(row), R(intr.ppy)), R(intr.fy))

\* the point of one pixel; coeffs[i] of the source is co[i + 1]
Pix2PointAt(d, row, col, intr) ==
    LET co == [i \in 1..5 |-> R(intr.coeffs[i])]
        x  == NormX(col, intr)
        y  == NormY(row, intr)
        r2 == FAdd(FMul(x, x), FMul(y, y))
        f  == FAdd(FAdd(FAdd(R(1), FMul(co[1], r2)),
                        FMul(FMul(co[2], r2), r2)),
                   FMul(FMul(FMul(co[5], r2), r2), r2))
        ux == FAdd(FAdd(FMul(x, f),
                        FMul(FMul(FMul(R(2), co[3]), x), y)),
                   FMul(co[4], FAdd(r2, FMul(FMul(R(2), x), x))))
        uy == FAdd(FAdd(FMul(y, f),
                        FMul(FMul(FMul(R(2), co[4]), x), y)),
                   FMul(co[3], FAdd(r2, FMul(FMul(R(2), y), y))))
    IN  <<FMul(R(d), ux), FMul(R(d), uy), R(d)>>

\* the coordinate field: one point per pixel of the depth image; nothing in
\* the function raises
pix2point(dep, intr) ==
    OK([p \in DOMAIN dep |-> Pix2PointAt(dep[p], p[1], p[2], intr)])

----------------------------------------------------------------------------
(* tech_blog_demo.py: AppWindow._on_click_load_pcd and _on_clear *)

\* DEPTH_INTRINSICS_1280x720, scaled down to the model's grids: zero
\* distortion, nonzero focal lengths, principal point on the grid
DEPTH_INTRINSICS ==
    [coeffs |-> <<0, 0, 0, 0, 0>>, fx |-> 2, fy |-> 1, ppx |-> 0, ppy |-> 0]

\* the pixels of a set in numpy's row-major order
RECURSIVE PixelSeq(_)
PixelSeq(S) ==
    IF S = {} THEN <<>>
    ELSE LET m == CHOOSE p \in S : \A q \in S :
                      p[1] < q[1] \/ (p[1] = q[1] /\ p[2] <= q[2])
         IN  <<m>> \o PixelSeq(S \ {m})

\* (png[food_mask] - 255) / 255 for one uint8 channel value: the
\* subtraction stays in uint8 and wraps
FoodRgb(v) == Frac((v - 255) % 256, 255)

\* the body of "for i in food_indices": the point cloud of label i
PointCloud(ranked, i, coords, png) ==
    LET food_mask == PixelSeq({p \in DOMAIN ranked : ranked[p] = i})
    IN  [points |-> [k \in 1..Len(food_mask) |-> coords[food_mask[k]]],
         colors |-> [k \in 1..Len(food_mask) |->
                        [c \in 1..3 |-> FoodRgb(png[food_mask[k]][c])]]]

\* mesh_list after the first loop
MeshList(ranked, indices, coords, png) ==
    [k \in 1..Len(indices) |-> PointCloud(ranked, indices[k], coords, png)]

\* the second loop, "for i, label_name in enumerate(mesh_info)":
\* mesh_list[i] raises IndexError at the first i past the end of mesh_list,
\* after the earlier iterations have added their geometry
AddedCount(mesh_info, meshes) == Min2(Len(mesh_info), Len(meshes))

AddedGeometry(mesh_info, meshes) ==
    [i \in 1..AddedCount(mesh_info, meshes) |-> <<mesh_info[i], meshes[i]>>]

\* data/demo.jpg on the model's grid: a fixed colour image
DemoPng(shape) == [p \in Pixels(shape) |-> <<255, 10 * p[1], 10 * p[2]>>]

OnClickLoadPcd ==
    \E r \in {json2results(data, shape_)} :
    /\ pc' = "loaded"
    /\ IF r.err # "none"
       THEN /\ err' = r.err
            /\ UNCHANGED <<results, ranked_food_mask, food_indices,
                           real_coords, mesh_list, geometry, all_geo_names>>
       ELSE \E g \in {get_food_mask(r.val)} :
            /\ results' = r.val
            /\ IF g.err # "none"
               THEN /\ err' = g.err
                    /\ UNCHANGED <<ranked_food_mask, food_indices, real_coords,
                                   mesh_list, geometry, all_geo_names>>
               ELSE \E coords \in {pix2point(depth, intrinsics).val} :
                    \E meshes \in {MeshList(g.val.ranked_food_mask,
                                            g.val.food_indices, coords,
                                            DemoPng(shape_))} :
                    LET mesh_info == r.val.class_names
                    IN  /\ ranked_food_mask' = g.val.ranked_food_mask
                        /\ food_indices' = g.val.food_indices
                        /\ real_coords' = coords
                        /\ mesh_list' = meshes
                        \* self._on_clear(), then the second loop
                        /\ geometry' = AddedGeometry(mesh_info, meshes)
                        /\ all_geo_names' =
                               [i \in 1..AddedCount(mesh_info, meshes) |->
                                   mesh_info[i]]
                        /\ err' = IF Len(meshes) < Len(mesh_info)
                                  THEN "IndexError" ELSE "none"
    /\ UNCHANGED <<data, shape_, depth, intrinsics>>

\* the CLEAR button
OnClear ==
    /\ pc' = "cleared"
    /\ geometry' = <<>>
    /\ all_geo_names' = <<>>
    /\ UNCHANGED <<data, shape_, results, err, ranked_food_mask, food_indices,
                   depth, intrinsics, real_coords, mesh_list>>

----------------------------------------------------------------------------------------------------------------------------------------
(* Inputs *)

Labels == <<"rice", "soup", "kimchi", "plate">>

\* sequences of length 0..n over S
SeqUpTo(S, n) == UNION {[1..k -> S] : k \in 0..n}

Annotation(label, scores, points, shape_type) ==
    [label |-> label, scores |-> scores, points |-> points,
     shape_type |-> shape_type]

\* data/demo.npy on the model's grid: a fixed depth image, nowhere zero
DemoDepth(shape) == [p \in Pixels(shape) |-> 1 + ((p[1] + p[2]) % MaxDepth)]

\* corner pairs <<c0, r0, c1, r1>> (in pixels) inside the grid that cover at
\* least one pixel
VisibleBoxes(shape) ==
    {b \in (0..shape[2]) \X (0..shape[1]) \X (0..shape[2]) \X (0..shape[1]) :
        b[1] < b[3] /\ b[2] < b[4]}

\* the document of rectangle annotations with these corner pairs, the k-th
\* labelled Labels[k], none with a score
RectDocument(boxes) ==
    [k \in 1..Len(boxes) |->
        Annotation(Labels[k], <<>>,
                   <<<<2 * boxes[k][1], 2 * boxes[k][2]>>,
                     <<2 * boxes[k][3], 2 * boxes[k][4]>>>>, "rectangle")]

\* the values the variables of a call not made yet hold
Unset ==
    /\ pc = "start"
    /\ err = "none"
    /\ ranked_food_mask = <<>>
    /\ food_indices = <<>>
    /\ real_coords = <<>>
    /\ mesh_list = <<>>
    /\ geometry = <<>>
    /\ all_geo_names = <<>>

----------------------------------------------------------------------------
(* The application: the RUN and CLEAR buttons on the demo files *)

Init ==
    /\ shape_ \in GridShapes
    /\ \E boxes \in SeqUpTo(VisibleBoxes(shape_), MaxShapes) :
           data = RectDocument(boxes)
    /\ depth = DemoDepth(shape_)
    /\ intrinsics = DEPTH_INTRINSICS
    /\ results = EmptyResults
    /\ Unset

Next == OnClickLoadPcd \/ OnClear

Spec == Init /\ [][Next]_vars

----------------------------------------------------------------------------
(* json2results alone, on annotation documents of every kind *)

\* scores.cls values (0 is a real score, distinct from no score)
ScoreFields == {<<>>, <<0>>, <<1>>}

\* vertex coordinates in half pixels: every pixel position from Margin
\* before the grid to Margin past it, whole (frac = 0) or half (frac = 1)
Coords(n, frac) == {2 * v + frac : v \in (-Margin)..(n + Margin)}

\* pairs of vertices <<x0, y0, x1, y1>> around a grid
VertexPairs(shape, frac) ==
    Coords(shape[2], frac) \X Coords(shape[1], frac)
        \X Coords(shape[2], frac) \X Coords(shape[1], frac)

\* the vertex lists built on a pair of vertices
OnePoint(v) == <<<<v[1], v[2]>>>>
TwoPoints(v) == <<<<v[1], v[2]>>, <<v[3], v[4]>>>>
Triangle(v) == <<<<v[1], v[2]>>, <<v[3], v[2]>>, <<v[3], v[4]>>>>
Box(v) == <<<<v[1], v[2]>>, <<v[3], v[2]>>, <<v[3], v[4]>>, <<v[1], v[4]>>>>

\* single annotations of every geometry: rectangles on one or two vertices
\* (whole or half-pixel), polygons and shapes of an unknown kind
GeometryAnnotations(shape) ==
    {Annotation("rice", <<>>, TwoPoints(v), "rectangle") :
        v \in VertexPairs(shape, 0) \cup VertexPairs(shape, 1)}
    \cup {Annotation("rice", <<>>, OnePoint(v), "rectangle") :
        v \in VertexPairs(shape, 0)}
    \cup {Annotation("rice", <<>>, Triangle(v), "polygon") :
        v \in VertexPairs(shape, 0)}
    \cup {Annotation("rice", <<>>, Box(v), t) :
        v \in VertexPairs(shape, 0), t \in {"polygon", "circle"}}

\* annotations of every label and score on two fixed geometries
ListAnnotations(shape) ==
    {Annotation(l, sc, g[1], g[2]) :
        l \in {"rice", "soup"}, sc \in ScoreFields,
        g \in {<<TwoPoints(<<0, 0, 2 * shape[2], 2 * shape[1]>>), "rectangle">>,
               <<Triangle(<<0, 0, 2 * shape[2], 2 * shape[1]>>), "polygon">>}}

Json2ResultsInit ==
    /\ shape_ \in GridShapes
    /\ data \in SeqUpTo(GeometryAnnotations(shape_), 1)
                 \cup SeqUpTo(ListAnnotations(shape_), MaxShapes)
    /\ depth = <<>>
    /\ intrinsics = DEPTH_INTRINSICS
    /\ results = EmptyResults
    /\ Unset

CallJson2Results ==
    /\ pc = "start"
    /\ pc' = "done"
    /\ \E r \in {json2results(data, shape_)} :
          /\ err' = r.err
          /\ results' = IF r.err = "none" THEN r.val ELSE results
    /\ UNCHANGED <<data, shape_, ranked_food_mask, food_indices, depth,
                   intrinsics, real_coords, mesh_list, geometry, all_geo_names>>

SpecJson2Results == Json2ResultsInit /\ [][CallJson2Results]_vars

----------------------------------------------------------------------------
(* get_food_mask alone, on every ordered set of instance masks *)

Masks(shape) == [Pixels(shape) -> {0, 1}]

\* the results dictionary holding these masks
MaskResults(masks) ==
    [class_names |-> [k \in 1..Len(masks) |-> Labels[k]],
     scores      |-> [k \in 1..Len(masks) |-> None],
     masks       |-> masks]

GetFoodMaskInit ==
    /\ shape_ \in GridShapes
    /\ \E masks \in SeqUpTo(Masks(shape_), MaxShapes) :
           results = MaskResults(masks)
    /\ data = <<>>
    /\ depth = <<>>
    /\ intrinsics = DEPTH_INTRINSICS
    /\ Unset

CallGetFoodMask ==
    /\ pc = "start"
    /\ pc' = "done"
    /\ \E g \in {get_food_mask(results)} :
          /\ err' = g.err
          /\ IF g.err = "none"
             THEN /\ ranked_food_mask' = g.val.ranked_food_mask
                  /\ food_indices' = g.val.food_indices
             ELSE UNCHANGED <<ranked_food_mask, food_indices>>
    /\ UNCHANGED <<data, shape_, results, depth, intrinsics, real_coords,
                   mesh_list, geometry, all_geo_names>>

SpecGetFoodMask == GetFoodMaskInit /\ [][CallGetFoodMask]_vars

----------------------------------------------------------------------------
(* pix2point alone, on every depth image and camera *)

DepthShapes == {s \in GridShapes : s[1] * s[2] <= MaxDepthPix}

\* the distortion vectors: none, each coefficient alone, all together
CoeffVectors ==
    {[i \in 1..5 |-> 0], [i \in 1..5 |-> 1]}
        \cup {[i \in 1..5 |-> IF i = j THEN 1 ELSE 0] : j \in 1..5}

Cameras ==
    [coeffs : CoeffVectors, fx : 0..MaxFocal, fy : 0..MaxFocal,
     ppx : {0, 1}, ppy : {0, 1}]

Pix2PointInit ==
    /\ shape_ \in DepthShapes
    /\ depth \in [Pixels(shape_) -> 0..MaxDepth]
    /\ intrinsics \in Cameras
    /\ data = <<>>
    /\ results = EmptyResults
    /\ Unset

CallPix2Point ==
    /\ pc = "start"
    /\ pc' = "done"
    /\ \E r \in {pix2point(depth, intrinsics)} :
          /\ err' = r.err
          /\ real_coords' = r.val
    /\ UNCHANGED <<data, shape_, results, ranked_food_mask, food_indices,
                   depth, intrinsics, mesh_list, geometry, all_geo_names>>

SpecPix2Point == Pix2PointInit /\ [][CallPix2Point]_vars

----------------------------------------------------------------------------
(* Properties of get_food_mask (SpecGetFoodMask) *)

\* the 0-based indices of the instances whose mask is 1 at pixel p
Covering(p) ==
    {i \in 0..(Len(results.masks) - 1) : results.masks[i + 1][p] = 1}

\* the instances that own a pixel: mask 1 there, every later mask 0
Visible ==
    {i \in 0..(Len(results.masks) - 1) :
        \E p \in Pixels(shape_) : i \in Covering(p) /\
            \A j \in Covering(p) : j <= i}

\* C1: for n >= 1 instance masks, every pixel of the label image holds the
\* largest index of the instances whose mask is 1 there, and holds the
\* background value -1 exactly when no mask is 1 there.
LabelIsLastWriter ==
    (pc = "done" /\ Len(results.masks) >= 1) =>
        /\ err = "none"
        /\ DOMAIN ranked_food_mask = Pixels(shape_)
        /\ \A p \in Pixels(shape_) :
              /\ (ranked_food_mask[p] = -1) <=> (Covering(p) = {})
              /\ Covering(p) # {} =>
                    /\ ranked_food_mask[p] \in Covering(p)
                    /\ \A i \in Covering(p) : i <= ranked_food_mask[p]

\* two masks overlap on a pixel and leave another pixel to the background
LastWriterWitness ==
    /\ pc = "done"
    /\ Len(results.masks) = 2
    /\ \E p, q \in Pixels(shape_) :
          /\ Covering(p) = {0, 1} /\ ranked_food_mask[p] = 1
          /\ Covering(q) = {} /\ ranked_food_mask[q] = -1

\* C2: for n >= 1 instance masks, food_indices is strictly ascending, never
\* contains -1, and contains i exactly when some pixel has mask i equal to 1
\* and every later mask equal to 0; a fully covered instance is absent.
FoodIndicesAreVisible ==
    (pc = "done" /\ Len(results.masks) >= 1) =>
        /\ err = "none"
        /\ \A k \in 1..(Len(food_indices) - 1) :
              food_indices[k] < food_indices[k + 1]
        /\ \A k \in 1..Len(food_indices) : food_indices[k] # -1
        /\ {food_indices[k] : k \in 1..Len(food_indices)} = Visible

\* the first instance holds a pixel and is fully covered by the second
OccludedWitness ==
    /\ pc = "done"
    /\ Len(results.masks) = 2
    /\ \E p \in Pixels(shape_) : results.masks[1][p] = 1
    /\ \A p \in Pixels(shape_) :
          results.masks[1][p] = 1 => results.masks[2][p] = 1
    /\ food_indices = <<1>>

----------------------------------------------------------------------------
(* Properties of json2results (SpecJson2Results) *)

\* a vertex coordinate (in half pixels) that is a whole pixel position
Whole(h) == h % 2 = 0

\* a rectangle annotation with integer corners, 0 <= row0 <= row1 <= height
\* and 0 <= col0 <= col1 <= width
OrderedInGridRectangle(a) ==
    /\ a.shape_type = "rectangle"
    /\ Len(a.points) = 2
    /\ \A i \in 1..2 : Whole(a.points[i][1]) /\ Whole(a.points[i][2])
    /\ 0 <= a.points[1][2] /\ a.points[1][2] <= a.points[2][2]
    /\ a.points[2][2] <= 2 * shape_[1]
    /\ 0 <= a.points[1][1] /\ a.points[1][1] <= a.points[2][1]
    /\ a.points[2][1] <= 2 * shape_[2]

\* C7: for a rectangle annotation with integer corners (col0,row0),
\* (col1,row1), 0 <= row0 <= row1 <= height and 0 <= col0 <= col1 <= width,
\* the mask is 1 exactly at the pixels (r,c) with row0 <= r < row1 and
\* col0 <= c < col1, and 0 at every other pixel of the grid.
RectangleMaskIsHalfOpenBox ==
    (pc = "done" /\ \A k \in 1..Len(data) : OrderedInGridRectangle(data[k]))
    => /\ err = "none"
       /\ Len(results.masks) = Len(data)
       /\ \A k \in 1..Len(data) :
             /\ DOMAIN results.masks[k] = Pixels(shape_)
             /\ \A p \in Pixels(shape_) :
                   (results.masks[k][p] = 1) <=>
                       /\ data[k].points[1][2] <= 2 * p[1]
                       /\ 2 * p[1] < data[k].points[2][2]
                       /\ data[k].points[1][1] <= 2 * p[2]
                       /\ 2 * p[2] < data[k].points[2][1]
             /\ \A p \in Pixels(shape_) : results.masks[k][p] \in {0, 1}

\* corners (1,0)-(2,1) on a 2 x 2 grid give row 0, column 1 alone
RectangleWitness ==
    /\ pc = "done"
    /\ shape_ = <<2, 2>>
    /\ Len(data) = 1
    /\ data[1].shape_type = "rectangle"
    /\ data[1].points = <<<<2, 0>>, <<4, 2>>>>
    /\ {p \in Pixels(shape_) : results.masks[1][p] = 1} = {<<0, 1>>}

\* an annotation json2results decodes: a rectangle on two vertices or a
\* polygon on three or more
ValidAnnotation(a) ==
    \/ a.shape_type = "rectangle" /\ Len(a.points) = 2
    \/ a.shape_type = "polygon" /\ Len(a.points) >= 3

\* C9: for n valid annotations, class_names, scores and masks each have n
\* entries, entry k of each comes from annotation k, and scores[k] is the
\* annotation's scores.cls when it has a scores field and None (never 0)
\* when it has none.
ResultsAreParallel ==
    (pc = "done" /\ \A k \in 1..Len(data) : ValidAnnotation(data[k]))
    => /\ err = "none"
       /\ Len(results.class_names) = Len(data)
       /\ Len(results.scores) = Len(data)
       /\ Len(results.masks) = Len(data)
       /\ \A k \in 1..Len(data) :
             /\ results.class_names[k] = data[k].label
             /\ Len(data[k].scores) > 0 =>
                    results.scores[k] = Num(data[k].scores[1])
             /\ Len(data[k].scores) = 0 =>
                    results.scores[k] = None /\ results.scores[k] # Num(0)
             /\ results.masks[k] = ShapeMask(data[k], shape_).val

\* two annotations that differ in label, kind and score, the second unscored
ParallelWitness ==
    /\ pc = "done"
    /\ err = "none"
    /\ Len(data) = 2
    /\ data[1].label # data[2].label
    /\ data[1].shape_type # data[2].shape_type
    /\ data[1].scores = <<1>> /\ data[2].scores = <<>>
    /\ results.class_names = <<data[1].label, data[2].label>>
    /\ results.scores = <<Num(1), None>>

\* C4 as claimed: json2results fails, and returns no mask, whenever an
\* annotation's shape_type is neither "rectangle" nor "polygon".
UnknownKindIsRejected ==
    (pc = "done" /\ \E k \in 1..Len(data) :
                        data[k].shape_type \notin {"rectangle", "polygon"})
    => err # "none" /\ results.masks = <<>>

\* a vertex with a negative coordinate or one beyond height / width
OutOfGrid(a) ==
    \E i \in 1..Len(a.points) :
        \/ a.points[i][1] < 0 \/ a.points[i][1] > 2 * shape_[2]
        \/ a.points[i][2] < 0 \/ a.points[i][2] > 2 * shape_[1]

\* C6 as claimed: json2results rejects with an error any annotation whose
\* vertices do not fit the grid, and returns no clipped, wrapped or padded
\* mask for it.
OutOfGridIsRejected ==
    (pc = "done" /\ \E k \in 1..Len(data) : OutOfGrid(data[k]))
    => err # "none" /\ results.masks = <<>>

----------------------------------------------------------------------------
(* Properties of pix2point (SpecPix2Point) *)

\* the float v is the rational num / den (den # 0)
IsRational(v, num, den) == v.k = "fin" /\ v.n * den = num * v.d

ZeroDistortion == \A i \in 1..5 : intrinsics.coeffs[i] = 0

\* C8: with all five distortion coefficients zero and fx, fy nonzero, the
\* point of pixel (row, col) with depth d is (d*(col-ppx)/fx,
\* d*(row-ppy)/fy, d), the output grid has the depth image's height and
\* width, and the pixel at the principal point maps to (0, 0, d).
PinholeAtZeroDistortion ==
    (pc = "done" /\ ZeroDistortion /\ intrinsics.fx # 0 /\ intrinsics.fy # 0)
    => /\ err = "none"
       /\ DOMAIN real_coords = DOMAIN depth
       /\ \A p \in DOMAIN depth :
             /\ IsRational(real_coords[p][1],
                           depth[p] * (p[2] - intrinsics.ppx), intrinsics.fx)
             /\ IsRational(real_coords[p][2],
                           depth[p] * (p[1] - intrinsics.ppy), intrinsics.fy)
             /\ real_coords[p][3] = R(depth[p])
             /\ (p[2] = intrinsics.ppx /\ p[1] = intrinsics.ppy) =>
                    real_coords[p] = <<R(0), R(0), R(depth[p])>>

\* a camera with different focal lengths: one pixel at the principal point,
\* another off it whose x is a proper fraction
PinholeWitness ==
    /\ pc = "done"
    /\ ZeroDistortion
    /\ intrinsics.fx = 2 /\ intrinsics.fy = 1
    /\ \E p, q \in DOMAIN depth :
          /\ p[2] = intrinsics.ppx /\ p[1] = intrinsics.ppy /\ depth[p] = 1
          /\ real_coords[p] = <<R(0), R(0), R(1)>>
          /\ depth[q] = 1 /\ real_coords[q][1] = Frac(1, 2)

\* C5 as claimed: with fx = 0 or fy = 0 pix2point fails with an error and
\* returns no coordinate field.
ZeroFocalIsRejected ==
    (pc = "done" /\ (intrinsics.fx = 0 \/ intrinsics.fy = 0))
    => err # "none" /\ real_coords = <<>>

----------------------------------------------------------------------------
(* Properties of _on_click_load_pcd (Spec) *)

\* C3 as claimed: with an empty shapes collection json2results yields zero
\* masks, and get_food_mask on them completes without an error and returns
\* an all-background label image and no present index.
EmptyAnnotationsAreNoError ==
    (pc = "loaded" /\ data = <<>>)
    => /\ Len(results.masks) = 0
       /\ err = "none"
       /\ food_indices = <<>>
       /\ DOMAIN ranked_food_mask = Pixels(shape_)
       /\ \A p \in Pixels(shape_) : ranked_food_mask[p] = -1

\* the 0-based instance index of the annotation that carries a label
InstanceOf(label) ==
    CHOOSE i \in 0..(Len(data) - 1) : data[i + 1].label = label

\* C10 as claimed: for every annotation set, one point cloud is built per
\* present index from exactly the pixels labelled with it, the geometry
\* added under a class label is the point cloud of the instance carrying
\* that label, and the handler completes without indexing past the end of
\* the point-cloud list.
GeometryMatchesLabels ==
    (pc = "loaded" /\ Len(data) >= 1)
    => /\ err = "none"
       /\ Len(mesh_list) = Len(food_indices)
       /\ \A k \in 1..Len(mesh_list) :
             mesh_list[k] = PointCloud(ranked_food_mask, food_indices[k],
                                       real_coords, DemoPng(shape_))
       /\ \A j \in 1..Len(geometry) :
             geometry[j][2] = PointCloud(ranked_food_mask,
                                         InstanceOf(geometry[j][1]),
                                         real_coords, DemoPng(shape_))

====
